---- MODULE Spec2Model ----
(***************************************************************************)
(* A model of the Battlefield 6 stat-tracker bot (src/unnamed/part_000,    *)
(* the persistent-tracking version of src/index.js): the tracked-player    *)
(* list and its JSON file, the lastStats cache, the poll passes and the    *)
(* chat-command handlers, interleaved at their awaits on one event loop.   *)
(***************************************************************************)
EXTENDS Naturals, Sequences, FiniteSets, TLC

(***************************************************************************)
(* Bounds of the model.                                                    *)
(***************************************************************************)
\* number of distinct persona ids the stats API knows
NumIds == 2
\* number of concurrently running asynchronous operations (passes, handlers)
MaxTasks == 2
\* operations (commands, timer ticks) started over one behaviour
MaxStarts == 3
\* process starts over one behaviour
MaxRuns == 2
\* stat values the API reports are the tokens "1" .. MaxStat (and null)
MaxStat == 2
\* path segments of the URLs given to !add
MaxPath == 4

(***************************************************************************)
(* Values.  JSON values are kept as their tokens (strings); a JavaScript   *)
(* falsy string (undefined, null, "") is the empty string.                 *)
(***************************************************************************)
IdStr == <<"1", "2", "3", "4">>
Ids == {IdStr[i] : i \in 1..NumIds}
StatStr == <<"1", "2", "3", "4">>
StatVals == {StatStr[i] : i \in 1..MaxStat}
Falsy == ""
JsNull == "null"


\* String.prototype.toLowerCase over the strings of the model
toLowerCase(s) ==
    CASE s = "Ann" -> "ann"
      [] s = "ANN" -> "ann"
      [] s = "Unknown" -> "unknown"
      [] OTHER -> s

\* a || b || c for strings
Or3(a, b, c) == IF a # Falsy THEN a ELSE IF b # Falsy THEN b ELSE c

platforms == <<"pc", "xbox", "psn">>

NoPlayer == [name |-> Falsy, personaId |-> Falsy, platform |-> Falsy]

(***************************************************************************)
(* The persisted file: JSON.stringify writes each player object as its     *)
(* properties in creation order (name, personaId, platform); JSON.parse    *)
(* rebuilds the objects.                                                   *)
(***************************************************************************)
JSONstringify(list) ==
    [i \in 1..Len(list) |-> <<list[i].name, list[i].personaId, list[i].platform>>]

JSONparse(data) ==
    [i \in 1..Len(data) |->
        [name |-> data[i][1], personaId |-> data[i][2], platform |-> data[i][3]]]

FileMissing == [state |-> "missing", data |-> <<>>]
FileCorrupt == [state |-> "corrupt", data |-> <<>>]
FileJson(list) == [state |-> "json", data |-> JSONstringify(list)]

\* outcomes of fs.writeFileSync: written; failed before the file was opened;
\* failed after it was opened for writing (truncated, content unparsable)
WriteOutcomes == {"ok", "failKeep", "failTrunc"}

writeFileSync(f, list, outcome) ==
    CASE outcome = "ok" -> FileJson(list)
      [] outcome = "failKeep" -> f
      [] OTHER -> FileCorrupt

(***************************************************************************)
(* Stats snapshots: a JSON object, as the partial function from its        *)
(* property names to value tokens.                                         *)
(***************************************************************************)
keyFields == <<"kills", "deaths", "score", "wins", "losses", "rank">>
KeyFieldSet == {keyFields[i] : i \in 1..Len(keyFields)}
EmptySnap == [f \in {} |-> Falsy]
Defined(stats, field) == field \in DOMAIN stats

\* Map.prototype.get: the entry, or undefined
MapGet(map, key) ==
    IF key \in DOMAIN map THEN [present |-> TRUE, snap |-> map[key]]
    ELSE [present |-> FALSE, snap |-> EmptySnap]
MapSet(map, key, val) == [k \in DOMAIN map \cup {key} |-> IF k = key THEN val ELSE map[k]]
MapDelete(map, key) == [k \in DOMAIN map \ {key} |-> map[k]]

RECURSIVE SomeKeyField(_, _, _)
SomeKeyField(oldStats, newStats, i) ==
    IF i > Len(keyFields) THEN FALSE
    ELSE IF /\ Defined(oldStats, keyFields[i])
            /\ Defined(newStats, keyFields[i])
            /\ oldStats[keyFields[i]] # newStats[keyFields[i]]
         THEN TRUE
         ELSE SomeKeyField(oldStats, newStats, i + 1)

\* a cached snapshot is statsChanged's oldStats; present = FALSE is undefined
statsChangedAllFields(old, newStats) ==
    \/ ~old.present
    \/ \E f \in DOMAIN old.snap \cap DOMAIN newStats : old.snap[f] # newStats[f]
statsChangedOneSided(old, newStats) ==
    \/ ~old.present
    \/ \E f \in KeyFieldSet :
          \/ Defined(old.snap, f) # Defined(newStats, f)
          \/ Defined(old.snap, f) /\ old.snap[f] # newStats[f]
statsChanged(old, newStats) ==
    IF ~old.present THEN TRUE ELSE SomeKeyField(old.snap, newStats, 1)

(***************************************************************************)
(* createStatsEmbed: one field per presentable stat the snapshot defines,  *)
(* in the order of the code's if-statements.  Formatting a value calls a   *)
(* method on it (toLocaleString, toFixed, toString), which throws a        *)
(* TypeError on null; timePlayed is only used in arithmetic.               *)
(***************************************************************************)
embedFields == <<"kills", "deaths", "kdRatio", "score", "wins", "losses",
                 "winPercent", "killsPerMinute", "timePlayed", "rank",
                 "scorePerMinute">>

\* a stat that is a JSON string and not a number
JsString == "n/a"
toFixedFields == {"kdRatio", "winPercent", "killsPerMinute", "scorePerMinute"}

FormatThrows(stats, field) ==
    /\ Defined(stats, field)
    /\ \/ stats[field] = JsNull /\ field # "timePlayed"
       \/ stats[field] = JsString /\ field \in toFixedFields

RECURSIVE PushFields(_, _, _)
PushFields(stats, i, fields) ==
    IF i > Len(embedFields) THEN fields
    ELSE PushFields(stats, i + 1,
                    IF Defined(stats, embedFields[i])
                    THEN Append(fields, embedFields[i]) ELSE fields)

NoEmbed == [threw |-> FALSE, fields |-> <<>>]

createStatsEmbed(stats) ==
    IF \E i \in 1..Len(embedFields) : FormatThrows(stats, embedFields[i])
    THEN [threw |-> TRUE, fields |-> <<>>]
    ELSE LET fields == PushFields(stats, 1, <<>>)
         IN [threw |-> FALSE,
             fields |-> SubSeq(fields, 1, IF Len(fields) < 25 THEN Len(fields) ELSE 25)]

(***************************************************************************)
(* The stats API, as the bot sees it.                                      *)
(***************************************************************************)
\* what a poll's fetchPlayerStats returns when the request succeeds
PollSnaps ==
    {[f \in {"kills"} |-> v] : v \in StatVals \cup {JsNull}}
    \cup {[f \in {"kills", "timePlayed"} |-> StatStr[1]]}

\* The JSON body the API gives for a persona id on a platform.  Player 1
\* goes by the all-digit user name "2"; some bodies lack the user name or
\* the persona id, and one has nothing but an id.
NoData == [userName |-> Falsy, name |-> Falsy, personaId |-> Falsy, id |-> Falsy]
ApiBody(playerId, platform) ==
    CASE playerId = IdStr[1] /\ platform = "pc" ->
            [NoData EXCEPT !.userName = IdStr[2], !.personaId = playerId]
      [] playerId = IdStr[1] /\ platform = "xbox" ->
            [NoData EXCEPT !.name = "Ann"]
      [] playerId = IdStr[1] /\ platform = "psn" ->
            [NoData EXCEPT !.id = playerId]
      [] playerId # IdStr[1] /\ platform = "pc" ->
            NoData
      [] playerId # IdStr[1] /\ platform = "xbox" ->
            [NoData EXCEPT !.userName = "Ann", !.id = playerId]
      [] OTHER ->
            [NoData EXCEPT !.personaId = playerId]

\* what an id probe of !add / !track gets: a network error, a non-2xx
\* response, or the JSON body
ProbeResponses(playerId, platform) ==
    {[kind |-> "error", data |-> NoData], [kind |-> "notOk", data |-> NoData],
     [kind |-> "ok", data |-> ApiBody(playerId, platform)]}

Recognizable(data) ==
    data.userName # Falsy \/ data.name # Falsy \/ data.personaId # Falsy

FoundPlayerOnPc(data, playerId, platform) ==
    [name |-> Or3(data.userName, data.name, "Unknown"),
     personaId |-> Or3(data.personaId, data.id, playerId),
     platform |-> platforms[1]]
FoundPlayer(data, playerId, platform) ==
    [name |-> Or3(data.userName, data.name, "Unknown"),
     personaId |-> Or3(data.personaId, data.id, playerId),
     platform |-> platform]

\* playerKey of postPlayerStats and of !untrack
PlayerKey(player) ==
    IF player.personaId # Falsy THEN player.personaId
    ELSE player.name \o "_" \o player.platform

\* the predicate of trackedPlayers.find in !add and !track
SamePlayerNoIdCheck(p, foundPlayer) ==
    p.name = foundPlayer.name /\ p.platform = foundPlayer.platform
SamePlayer(p, foundPlayer) ==
    \/ (p.personaId # Falsy /\ p.personaId = foundPlayer.personaId)
    \/ (p.name = foundPlayer.name /\ p.platform = foundPlayer.platform)

\* the predicate of trackedPlayers.findIndex in !untrack
UntrackMatch(p, playerId) ==
    \/ (p.personaId # Falsy /\ p.personaId = playerId)
    \/ toLowerCase(p.name) = toLowerCase(playerId)

\* Array.prototype.findIndex, 1-based; 0 is the code's -1
findIndex(list, playerId) ==
    IF \E i \in 1..Len(list) : UntrackMatch(list[i], playerId)
    THEN CHOOSE i \in 1..Len(list) :
            /\ UntrackMatch(list[i], playerId)
            /\ \A j \in 1..(i - 1) : ~UntrackMatch(list[j], playerId)
    ELSE 0

\* Array.prototype.splice(index, 1)
splice(list, index) ==
    [i \in 1..(Len(list) - 1) |-> IF i < index THEN list[i] ELSE list[i + 1]]

(***************************************************************************)
(* State.                                                                  *)
(***************************************************************************)
VARIABLES
    phase,           \* "down", "starting" (before the ready event), "running"
    trackedPlayers,  \* the in-memory list
    file,            \* trackedPlayers.json
    lastStats,       \* the Map of last posted stats, by playerKey
    tasks,           \* the asynchronous operations in flight, by slot
    reply,           \* the message.reply of the latest step: [cmd, text, arg]
    saved,           \* the saveTrackedPlayers of the latest step: [by, ok]
    fetched,         \* what fetchPlayerStats returned in the latest step
    posted,          \* the stats message sent in the latest step: [key, stats]
    probed,          \* the response an id probe got in the latest step
    lastExit,        \* the latest process exit, until the next load:
                     \* [list: trackedPlayers then, ok: its last write succeeded]
    runs,            \* process starts so far
    started,         \* operations started so far
    oldStats, newStats, changed, applied,  \* statsChanged on its own
    message,         \* the chat message of a handler on its own:
                     \* [bot, word, blank, hasArg, arg, url]
    responses,       \* searchPlayers on its own: what each platform answers
    results,         \* and the array it returns
    embed            \* createStatsEmbed on its own: what it gave for newStats

pureVars == <<oldStats, newStats, changed, applied, message, responses, results,
              embed>>
botVars == <<phase, trackedPlayers, file, lastStats, tasks, reply, saved, fetched, posted, probed,
             lastExit, runs, started>>
vars == <<phase, trackedPlayers, file, lastStats, tasks, reply, saved, fetched, posted, probed,
          lastExit, runs, started, oldStats, newStats, changed, applied, message,
          responses, results, embed>>

Tasks == 1..MaxTasks
Idle == [kind |-> "idle", pc |-> "idle", arg |-> Falsy, plat |-> 0, idx |-> 0,
         player |-> NoPlayer, stats |-> EmptySnap, seen |-> <<>>, whole |-> {}]
NoReply == [cmd |-> "none", text |-> "none", arg |-> Falsy]
NoFetch == [ok |-> FALSE, stats |-> EmptySnap, by |-> 0]
NoPost == [key |-> Falsy, stats |-> EmptySnap]
NoProbe == [kind |-> "none", data |-> NoData]
NoSave == [by |-> "none", ok |-> FALSE]
NoExit == [list |-> <<>>, ok |-> FALSE]
NoMap == [k \in {} |-> EmptySnap]
NoOld == [present |-> FALSE, snap |-> EmptySnap]
\* a string that new URL() rejects
NotAUrl == [valid |-> FALSE, path |-> <<>>]
NoMessage == [bot |-> FALSE, word |-> Falsy, blank |-> FALSE, hasArg |-> FALSE, arg |-> Falsy,
              url |-> NotAUrl]

PassPcs == {"fetch", "send", "delay"}
IsPass(task) == task.kind \in {"pass", "update"} /\ task.pc \in PassPcs

\* a free slot; the lowest one, the slots being interchangeable
FreeSlot(t) == tasks[t].kind = "idle" /\ \A u \in 1..(t - 1) : tasks[u].kind # "idle"

\* saveTrackedPlayers: the write's failure is caught and logged
saveTrackedPlayersNoWrite(f, list, outcome) == f
saveTrackedPlayers(f, list, outcome) == writeFileSync(f, list, outcome)

(***************************************************************************)
(* Process life cycle.                                                     *)
(***************************************************************************)
Init ==
    /\ phase = "down"
    /\ trackedPlayers = <<>>
    /\ file \in {FileMissing, FileCorrupt, FileJson(<<>>)}
    /\ lastStats = NoMap
    /\ tasks = [t \in Tasks |-> Idle]
    /\ reply = NoReply
    /\ saved = NoSave
    /\ fetched = NoFetch
    /\ posted = NoPost
    /\ probed = NoProbe
    /\ lastExit = NoExit
    /\ runs = 0
    /\ started = 0
    /\ oldStats = NoOld /\ newStats = EmptySnap /\ changed = FALSE /\ applied = FALSE
    /\ message = NoMessage
    /\ responses = <<>> /\ results = <<>> /\ embed = NoEmbed

\* node starts the script: module-level state is initialised
Start ==
    /\ phase = "down"
    /\ runs < MaxRuns
    /\ phase' = "starting"
    /\ runs' = runs + 1
    /\ trackedPlayers' = <<>>
    /\ lastStats' = NoMap
    /\ tasks' = [t \in Tasks |-> Idle]
    /\ reply' = NoReply
    /\ saved' = NoSave
    /\ UNCHANGED <<file, lastExit, started>>
    /\ fetched' = NoFetch /\ posted' = NoPost /\ probed' = NoProbe
    /\ UNCHANGED pureVars

\* loadTrackedPlayers: [list, file, saved] afterwards
loadTrackedPlayersNoParse(f, outcome) ==
    [list |-> <<>>, file |-> f, saved |-> NoSave]
loadTrackedPlayersNoCreate(f, outcome) ==
    CASE f.state = "json" ->
            [list |-> JSONparse(f.data), file |-> f, saved |-> NoSave]
      [] OTHER ->
            [list |-> <<>>, file |-> f,
             saved |-> IF f.state = "missing"
                       THEN [by |-> "load", ok |-> outcome = "ok"] ELSE NoSave]
loadTrackedPlayers(f, outcome) ==
    CASE f.state = "json" ->
            [list |-> JSONparse(f.data), file |-> f, saved |-> NoSave]
      [] f.state = "missing" ->
            [list |-> <<>>, file |-> saveTrackedPlayers(f, <<>>, outcome),
             saved |-> [by |-> "load", ok |-> outcome = "ok"]]
      [] OTHER ->
            [list |-> <<>>, file |-> f, saved |-> NoSave]

\* postPlayerStats up to its first await: the channel lookup, then the fetch
EnterPlayerBackwards(kind, list, i, channel) ==
    [kind |-> kind, pc |-> IF channel THEN "fetch" ELSE "delay", arg |-> Falsy,
     plat |-> 0, idx |-> i, player |-> list[Len(list) + 1 - i], stats |-> EmptySnap,
     seen |-> <<>>, whole |-> {}]
EnterPlayer(kind, list, i, channel) ==
    [kind |-> kind, pc |-> IF channel THEN "fetch" ELSE "delay", arg |-> Falsy,
     plat |-> 0, idx |-> i, player |-> list[i], stats |-> EmptySnap,
     seen |-> <<>>, whole |-> {}]

\* what a pass has done, kept beside its position: the keys of the players
\* it has entered postPlayerStats for, in order (seen), and the keys of the
\* list it started on (whole)
KeysOf(list) == {PlayerKey(list[i]) : i \in 1..Len(list)}
Began(task, list) ==
    [task EXCEPT !.seen = <<PlayerKey(task.player)>>, !.whole = KeysOf(list)]
Continued(task, before) ==
    [task EXCEPT !.seen = Append(before.seen, PlayerKey(task.player)),
                 !.whole = before.whole]

\* postAllStats up to its first await (Idle: it returned at once)
postAllStatsGuarded(kind, list, channel) ==
    IF Len(list) = 0 \/ \E u \in Tasks : IsPass(tasks[u])
    THEN Idle ELSE Began(EnterPlayer(kind, list, 1, channel), list)
postAllStats(kind, list, channel) ==
    IF Len(list) = 0 THEN Idle ELSE Began(EnterPlayer(kind, list, 1, channel), list)

\* client.once('ready'): load the list, start the startup pass, set the timer
Ready ==
    /\ phase = "starting"
    /\ \E outcome \in IF file.state = "missing" THEN WriteOutcomes ELSE {"ok"},
          channel \in BOOLEAN :
        LET loaded == loadTrackedPlayers(file, outcome) IN
        /\ trackedPlayers' = loaded.list
        /\ file' = loaded.file
        /\ saved' = loaded.saved
        /\ tasks' = [tasks EXCEPT ![1] = postAllStats("pass", loaded.list, channel)]
    /\ phase' = "running"
    /\ reply' = NoReply
    /\ lastExit' = NoExit
    /\ UNCHANGED <<lastStats, runs, started>>
    /\ fetched' = NoFetch /\ posted' = NoPost /\ probed' = NoProbe
    /\ UNCHANGED pureVars

\* process.on('exit') alone (process.exit(1) of a failed login or a missing
\* token), or a signal (SIGINT, SIGTERM): save, then process.exit() and the
\* exit handler, which saves again
ExitKinds == {"exit", "signal"}
Exit ==
    /\ phase \in {"starting", "running"}
    /\ \E kind \in ExitKinds, o2 \in WriteOutcomes :
        \* the signal handler's own write shows only if the exit handler's
        \* write then leaves the file as it is
        \E o1 \in IF kind = "signal" /\ o2 = "failKeep" THEN WriteOutcomes ELSE {"ok"} :
        /\ kind = "exit" => phase = "starting"
        /\ LET f1 == IF kind = "exit" THEN file
                     ELSE saveTrackedPlayers(file, trackedPlayers, o1)
           IN file' = saveTrackedPlayers(f1, trackedPlayers, o2)
        /\ saved' = [by |-> "exit", ok |-> o2 = "ok"]
        /\ lastExit' = [list |-> trackedPlayers, ok |-> o2 = "ok"]
    /\ phase' = "down"
    /\ trackedPlayers' = <<>>
    /\ lastStats' = NoMap
    /\ tasks' = [t \in Tasks |-> Idle]
    /\ reply' = NoReply
    /\ UNCHANGED <<runs, started>>
    /\ fetched' = NoFetch /\ posted' = NoPost /\ probed' = NoProbe
    /\ UNCHANGED pureVars

(***************************************************************************)
(* Poll passes: postAllStats and postPlayerStats, one action per resumed   *)
(* await.  A pass iterates the live array: idx is the iterator's index.    *)
(***************************************************************************)
\* setInterval(postAllStats, UPDATE_INTERVAL): a tick, whatever is in flight
TimerTick(t) ==
    /\ phase = "running"
    /\ started < MaxStarts
    /\ FreeSlot(t)
    /\ \E channel \in BOOLEAN :
        tasks' = [tasks EXCEPT ![t] = postAllStats("pass", trackedPlayers, channel)]
    /\ started' = started + 1
    /\ reply' = NoReply
    /\ saved' = NoSave
    /\ UNCHANGED <<phase, trackedPlayers, file, lastStats, lastExit, runs>>
    /\ fetched' = NoFetch /\ posted' = NoPost /\ probed' = NoProbe
    /\ UNCHANGED pureVars

\* fetchPlayerStats's result: null (non-2xx, network error) or the JSON body
FetchFailed == [ok |-> FALSE, stats |-> EmptySnap]
FetchResults == {FetchFailed} \cup {[ok |-> TRUE, stats |-> s] : s \in PollSnaps}

\* postPlayerStats from the fetch's return to its next await or its end:
\* the task afterwards ("delay": it returned; Idle: it threw, which rejects
\* postAllStats as well, there being no try around the call)
AfterFetchRetry(task, result, cache) ==
    IF ~result.ok THEN task
    ELSE IF ~statsChanged(MapGet(cache, PlayerKey(task.player)), result.stats)
         THEN [task EXCEPT !.pc = "delay"]
         ELSE IF createStatsEmbed(result.stats).threw
              THEN Idle
              ELSE [task EXCEPT !.pc = "send", !.stats = result.stats]
AfterFetch(task, result, cache) ==
    IF ~result.ok THEN [task EXCEPT !.pc = "delay"]
    ELSE IF ~statsChanged(MapGet(cache, PlayerKey(task.player)), result.stats)
         THEN [task EXCEPT !.pc = "delay"]
         ELSE IF createStatsEmbed(result.stats).threw
              THEN Idle
              ELSE [task EXCEPT !.pc = "send", !.stats = result.stats]

FetchDone(t) ==
    /\ IsPass(tasks[t]) /\ tasks[t].pc = "fetch"
    /\ \E result \in FetchResults :
        /\ tasks' = [tasks EXCEPT ![t] = AfterFetch(tasks[t], result, lastStats)]
        /\ fetched' = [ok |-> result.ok, stats |-> result.stats, by |-> t]
    /\ reply' = NoReply
    /\ saved' = NoSave
    /\ UNCHANGED <<phase, trackedPlayers, file, lastStats, lastExit, runs, started>>
    /\ posted' = NoPost /\ probed' = NoProbe
    /\ UNCHANGED pureVars

\* the cache after channel.send settled
AfterSend(cache, task, sent) ==
    IF sent THEN MapSet(cache, PlayerKey(task.player), task.stats) ELSE cache

SendDone(t) ==
    /\ IsPass(tasks[t]) /\ tasks[t].pc = "send"
    /\ \E sent \in BOOLEAN :
        /\ lastStats' = AfterSend(lastStats, tasks[t], sent)
        /\ posted' = IF sent THEN [key |-> PlayerKey(tasks[t].player),
                                   stats |-> tasks[t].stats]
                      ELSE NoPost
    /\ tasks' = [tasks EXCEPT ![t] = [@ EXCEPT !.pc = "delay", !.stats = EmptySnap]]
    /\ reply' = NoReply
    /\ saved' = NoSave
    /\ UNCHANGED <<phase, trackedPlayers, file, lastExit, runs, started>>
    /\ fetched' = NoFetch /\ probed' = NoProbe
    /\ UNCHANGED pureVars

\* the 2 s delay elapsed: the for...of loop takes the next element, if any
DelayDone(t) ==
    /\ IsPass(tasks[t]) /\ tasks[t].pc = "delay"
    /\ IF tasks[t].idx < Len(trackedPlayers)
       THEN /\ \E channel \in BOOLEAN :
                tasks' = [tasks EXCEPT ![t] =
                    Continued(EnterPlayer(tasks[t].kind, trackedPlayers,
                                          tasks[t].idx + 1, channel), tasks[t])]
            /\ reply' = NoReply
       ELSE /\ tasks' = [tasks EXCEPT ![t] = Idle]
            /\ reply' = IF tasks[t].kind = "update"
                        THEN [cmd |-> "update", text |-> "updated", arg |-> Falsy]
                        ELSE NoReply
    /\ saved' = NoSave
    /\ UNCHANGED <<phase, trackedPlayers, file, lastStats, lastExit, runs, started>>
    /\ fetched' = NoFetch /\ posted' = NoPost /\ probed' = NoProbe
    /\ UNCHANGED pureVars

\* !update / !bf6update: reply, then run postAllStats, then reply again
OnUpdate(t) ==
    /\ tasks' = [tasks EXCEPT ![t] = [Idle EXCEPT !.kind = "update", !.pc = "updReply"]]
    /\ reply' = [cmd |-> "update", text |-> "updating", arg |-> Falsy]
    /\ started' = started + 1
    /\ saved' = NoSave
    /\ UNCHANGED <<phase, trackedPlayers, file, lastStats, lastExit, runs>>
    /\ fetched' = NoFetch /\ posted' = NoPost /\ probed' = NoProbe

UpdateStart(t) ==
    /\ phase = "running"
    /\ started < MaxStarts
    /\ FreeSlot(t)
    /\ OnUpdate(t)
    /\ UNCHANGED pureVars

UpdateReplied(t) ==
    /\ tasks[t].kind = "update" /\ tasks[t].pc = "updReply"
    /\ \E channel \in BOOLEAN :
        tasks' = [tasks EXCEPT ![t] = postAllStats("update", trackedPlayers, channel)]
    /\ reply' = IF Len(trackedPlayers) = 0
                THEN [cmd |-> "update", text |-> "updated", arg |-> Falsy]
                ELSE NoReply
    /\ saved' = NoSave
    /\ UNCHANGED <<phase, trackedPlayers, file, lastStats, lastExit, runs, started>>
    /\ fetched' = NoFetch /\ posted' = NoPost /\ probed' = NoProbe
    /\ UNCHANGED pureVars

(***************************************************************************)
(* Command handlers (client.on('messageCreate')), one action per resumed   *)
(* await.                                                                  *)
(***************************************************************************)
\* URLs a user gives !add: whether new URL() accepts it, and the non-empty
\* parts of its path
DigitStrings == {IdStr[i] : i \in 1..Len(IdStr)}
Urls ==
    {[valid |-> TRUE, path |-> <<"bf6", "profile", id, "overview">>] : id \in Ids}
    \cup {[valid |-> TRUE, path |-> <<"bf6", "profile", "pc", "Ann">>], NotAUrl}

\* the player id, or Falsy for the code's null
parseTrackerUrlOverview(url) ==
    IF ~url.valid THEN Falsy
    ELSE IF /\ Len(url.path) = 4
            /\ url.path[1] = "bf6"
            /\ url.path[2] = "profile"
            /\ url.path[3] \in DigitStrings
            /\ url.path[4] = "overview"
         THEN url.path[3]
         ELSE Falsy
parseTrackerUrl(url) ==
    IF ~url.valid THEN Falsy
    ELSE IF /\ Len(url.path) >= 3
            /\ url.path[1] = "bf6"
            /\ url.path[2] = "profile"
            /\ url.path[3] \in DigitStrings
         THEN url.path[3]
         ELSE Falsy

\* !track <id>: the first probe is awaited
OnTrack(t, playerId) ==
    /\ tasks' = [tasks EXCEPT ![t] =
                    [Idle EXCEPT !.kind = "track", !.pc = "probe",
                                 !.arg = playerId, !.plat = 1]]
    /\ started' = started + 1
    /\ reply' = NoReply
    /\ saved' = NoSave
    /\ UNCHANGED <<phase, trackedPlayers, file, lastStats, lastExit, runs>>
    /\ fetched' = NoFetch /\ posted' = NoPost /\ probed' = NoProbe

TrackStart(t) ==
    /\ phase = "running"
    /\ started < MaxStarts
    /\ FreeSlot(t)
    /\ \E playerId \in Ids : OnTrack(t, playerId)
    /\ UNCHANGED pureVars

\* !add <url>: a format error, or the "Looking up" reply is awaited
OnAdd(t, url) ==
    /\ LET playerId == parseTrackerUrl(url) IN
        IF playerId = Falsy
        THEN /\ reply' = [cmd |-> "add", text |-> "invalidUrl", arg |-> Falsy]
             /\ UNCHANGED tasks
        ELSE /\ reply' = [cmd |-> "add", text |-> "lookingUp", arg |-> playerId]
             /\ tasks' = [tasks EXCEPT ![t] =
                            [Idle EXCEPT !.kind = "add", !.pc = "lookupReply",
                                         !.arg = playerId]]
    /\ started' = started + 1
    /\ saved' = NoSave
    /\ UNCHANGED <<phase, trackedPlayers, file, lastStats, lastExit, runs>>
    /\ fetched' = NoFetch /\ posted' = NoPost /\ probed' = NoProbe

AddStart(t) ==
    /\ phase = "running"
    /\ started < MaxStarts
    /\ FreeSlot(t)
    /\ \E url \in Urls : OnAdd(t, url)
    /\ UNCHANGED pureVars

AddReplied(t) ==
    /\ tasks[t].kind = "add" /\ tasks[t].pc = "lookupReply"
    /\ tasks' = [tasks EXCEPT ![t] = [@ EXCEPT !.pc = "probe", !.plat = 1]]
    /\ reply' = NoReply
    /\ saved' = NoSave
    /\ UNCHANGED <<phase, trackedPlayers, file, lastStats, lastExit, runs, started>>
    /\ fetched' = NoFetch /\ posted' = NoPost /\ probed' = NoProbe
    /\ UNCHANGED pureVars

\* trackedPlayers.find(...) of !add and !track
alreadyTrackedNever(list, foundPlayer) == FALSE
alreadyTracked(list, foundPlayer) ==
    \E i \in 1..Len(list) : SamePlayer(list[i], foundPlayer)

\* the probe loop is over with foundPlayer: the duplicate check, then the
\* push and the save, then the reply
Conclude(t, foundPlayer) ==
    /\ IF alreadyTracked(trackedPlayers, foundPlayer)
       THEN /\ reply' = [cmd |-> tasks[t].kind, text |-> "already", arg |-> tasks[t].arg]
            /\ saved' = NoSave
            /\ UNCHANGED <<trackedPlayers, file>>
       ELSE /\ trackedPlayers' = Append(trackedPlayers, foundPlayer)
            /\ \E outcome \in WriteOutcomes :
                /\ file' = saveTrackedPlayers(file, trackedPlayers', outcome)
                /\ saved' = [by |-> tasks[t].kind, ok |-> outcome = "ok"]
            /\ reply' = [cmd |-> tasks[t].kind, text |-> "added", arg |-> tasks[t].arg]
    /\ tasks' = [tasks EXCEPT ![t] = Idle]

\* the probe loop goes on to the next platform, or is over without a player
ProbeNext(t) ==
    /\ IF tasks[t].plat < Len(platforms)
       THEN /\ tasks' = [tasks EXCEPT ![t] = [@ EXCEPT !.pc = "probe", !.plat = @ + 1]]
            /\ reply' = NoReply
       ELSE /\ tasks' = [tasks EXCEPT ![t] = Idle]
            /\ reply' = [cmd |-> tasks[t].kind, text |-> "notFound", arg |-> tasks[t].arg]
    /\ saved' = NoSave
    /\ UNCHANGED <<trackedPlayers, file>>

\* a probe's fetch settled
ProbeDone(t) ==
    /\ tasks[t].kind \in {"track", "add"} /\ tasks[t].pc = "probe"
    /\ \E resp \in ProbeResponses(tasks[t].arg, platforms[tasks[t].plat]) :
        /\ probed' = resp
        /\ IF resp.kind = "ok" /\ Recognizable(resp.data)
           THEN Conclude(t, FoundPlayer(resp.data, tasks[t].arg, platforms[tasks[t].plat]))
           ELSE IF resp.kind # "error" /\ tasks[t].kind = "add"
                THEN \* !add waits 500 ms before the next probe
                     /\ tasks' = [tasks EXCEPT ![t] = [@ EXCEPT !.pc = "probeDelay"]]
                     /\ reply' = NoReply
                     /\ saved' = NoSave
                     /\ UNCHANGED <<trackedPlayers, file>>
                ELSE ProbeNext(t)
    /\ UNCHANGED <<phase, lastStats, lastExit, runs, started>>
    /\ fetched' = NoFetch /\ posted' = NoPost
    /\ UNCHANGED pureVars

ProbeDelayDone(t) ==
    /\ tasks[t].kind = "add" /\ tasks[t].pc = "probeDelay"
    /\ ProbeNext(t)
    /\ UNCHANGED <<phase, lastStats, lastExit, runs, started>>
    /\ fetched' = NoFetch /\ posted' = NoPost /\ probed' = NoProbe
    /\ UNCHANGED pureVars

\* !untrack <id>: no await before the final reply
UntrackArgs == Ids \cup {"ann"}
OnUntrack(playerId) ==
    /\ LET index == findIndex(trackedPlayers, playerId) IN
        IF index = 0
        THEN /\ reply' = [cmd |-> "untrack", text |-> "notTracked", arg |-> playerId]
             /\ saved' = NoSave
             /\ UNCHANGED <<trackedPlayers, file, lastStats>>
        ELSE /\ trackedPlayers' = splice(trackedPlayers, index)
             /\ \E outcome \in WriteOutcomes :
                 /\ file' = saveTrackedPlayers(file, trackedPlayers', outcome)
                 /\ saved' = [by |-> "untrack", ok |-> outcome = "ok"]
             /\ lastStats' = MapDelete(lastStats, PlayerKey(trackedPlayers[index]))
             /\ reply' = [cmd |-> "untrack", text |-> "removed", arg |-> playerId]
    /\ started' = started + 1
    /\ UNCHANGED <<phase, tasks, lastExit, runs>>
    /\ fetched' = NoFetch /\ posted' = NoPost /\ probed' = NoProbe

Untrack ==
    /\ phase = "running"
    /\ started < MaxStarts
    /\ \E playerId \in UntrackArgs : OnUntrack(playerId)
    /\ UNCHANGED pureVars

(***************************************************************************)
(* The bot.                                                                *)
(***************************************************************************)
Next ==
    \/ Start
    \/ Ready
    \/ Exit
    \/ Untrack
    \/ \E t \in Tasks :
        \/ TimerTick(t)
        \/ FetchDone(t)
        \/ SendDone(t)
        \/ DelayDone(t)
        \/ UpdateStart(t)
        \/ UpdateReplied(t)
        \/ TrackStart(t)
        \/ AddStart(t)
        \/ AddReplied(t)
        \/ ProbeDone(t)
        \/ ProbeDelayDone(t)

Spec == Init /\ [][Next]_vars

(***************************************************************************)
(* statsChanged on its own: every pair of a cached value (or none) and a   *)
(* fetched snapshot over the key fields and one other field.               *)
(***************************************************************************)
ChangedFields == KeyFieldSet \cup {"timePlayed"}
OldSnaps == UNION {[S -> {StatStr[1]}] : S \in SUBSET ChangedFields}
NewSnaps == UNION {[S -> StatVals] : S \in SUBSET ChangedFields}

InitChanged ==
    /\ phase = "down"
    /\ trackedPlayers = <<>>
    /\ file = FileMissing
    /\ lastStats = NoMap
    /\ tasks = [t \in Tasks |-> Idle]
    /\ reply = NoReply
    /\ saved = NoSave
    /\ fetched = NoFetch
    /\ posted = NoPost
    /\ probed = NoProbe
    /\ lastExit = NoExit
    /\ runs = 0
    /\ started = 0
    /\ oldStats \in {NoOld} \cup {[present |-> TRUE, snap |-> s] : s \in OldSnaps}
    /\ newStats \in NewSnaps
    /\ changed = FALSE
    /\ applied = FALSE
    /\ message = NoMessage
    /\ responses = <<>> /\ results = <<>> /\ embed = NoEmbed

ApplyChanged ==
    /\ ~applied
    /\ changed' = statsChanged(oldStats, newStats)
    /\ applied' = TRUE
    /\ UNCHANGED <<oldStats, newStats, message, responses, results, embed>>
    /\ UNCHANGED botVars

NextChanged == ApplyChanged

SpecChanged == InitChanged /\ [][NextChanged]_vars

(***************************************************************************)
(* The messageCreate handler on its own: one message, given to a running   *)
(* bot that tracks one player, up to the handler's first await.  The       *)
(* content, trimmed, is its first word and whether more text follows it:   *)
(* arg is that text, and url what new URL() makes of it.                   *)
(***************************************************************************)
\* !search <name>: the "Searching" reply is awaited
OnSearch(t, playerName) ==
    /\ tasks' = [tasks EXCEPT ![t] =
                    [Idle EXCEPT !.kind = "search", !.pc = "searchReply",
                                 !.arg = playerName]]
    /\ reply' = [cmd |-> "search", text |-> "searching", arg |-> playerName]
    /\ started' = started + 1
    /\ saved' = NoSave
    /\ UNCHANGED <<phase, trackedPlayers, file, lastStats, lastExit, runs>>
    /\ fetched' = NoFetch /\ posted' = NoPost /\ probed' = NoProbe

\* !list: one reply
OnList ==
    /\ reply' = [cmd |-> "list",
                 text |-> IF Len(trackedPlayers) = 0 THEN "noPlayers" ELSE "players",
                 arg |-> Falsy]
    /\ started' = started + 1
    /\ saved' = NoSave
    /\ UNCHANGED <<phase, trackedPlayers, file, lastStats, tasks, lastExit, runs>>
    /\ fetched' = NoFetch /\ posted' = NoPost /\ probed' = NoProbe

\* !help / !bf6help: one reply
OnHelp ==
    /\ reply' = [cmd |-> "help", text |-> "commands", arg |-> Falsy]
    /\ started' = started + 1
    /\ saved' = NoSave
    /\ UNCHANGED <<phase, trackedPlayers, file, lastStats, tasks, lastExit, runs>>
    /\ fetched' = NoFetch /\ posted' = NoPost /\ probed' = NoProbe

\* A message's content is its first word, whether white space ends it
\* (blank), and the argument after the word, if any (hasArg, arg).
\* String.prototype.trim drops the white space at the end
trim(content) == [content EXCEPT !.blank = FALSE]
\* content.startsWith(word + ' ')
StartsWith(content, word) ==
    content.word = word /\ (content.hasArg \/ content.blank)
\* content === word
Equals(content, word) ==
    content.word = word /\ ~content.hasArg /\ ~content.blank

\* a command's "Please provide ..." reply
Usage(cmd) ==
    /\ reply' = [cmd |-> cmd, text |-> "usage", arg |-> Falsy]
    /\ started' = started + 1
    /\ saved' = NoSave
    /\ UNCHANGED <<phase, trackedPlayers, file, lastStats, tasks, lastExit, runs>>
    /\ fetched' = NoFetch /\ posted' = NoPost /\ probed' = NoProbe

\* the branch of the handler a message takes
DispatchAnyAuthor(msg) ==
    LET content == trim(msg) IN
    CASE StartsWith(content, "!search") -> "search"
      [] StartsWith(content, "!add") -> "add"
      [] StartsWith(content, "!track") -> "track"
      [] Equals(content, "!list") -> "list"
      [] StartsWith(content, "!untrack") -> "untrack"
      [] Equals(content, "!update") \/ Equals(content, "!bf6update") -> "update"
      [] Equals(content, "!help") \/ Equals(content, "!bf6help") -> "help"
      [] OTHER -> "none"
Dispatch(msg) ==
    IF msg.bot THEN "none"
    ELSE LET content == trim(msg) IN
         CASE StartsWith(content, "!search") -> "search"
           [] StartsWith(content, "!add") -> "add"
           [] StartsWith(content, "!track") -> "track"
           [] Equals(content, "!list") -> "list"
           [] StartsWith(content, "!untrack") -> "untrack"
           [] Equals(content, "!update") \/ Equals(content, "!bf6update") -> "update"
           [] Equals(content, "!help") \/ Equals(content, "!bf6help") -> "help"
           [] OTHER -> "none"

\* the URLs: not a URL at all, or any path of up to MaxPath segments
Segments == {"bf6", "profile", "overview", "pc", "Ann"} \cup Ids
Paths == UNION {[1..n -> Segments] : n \in 0..MaxPath}
AllUrls == {[valid |-> TRUE, path |-> p] : p \in Paths} \cup {NotAUrl}

CommandWords == {"!search", "!add", "!track", "!list", "!untrack", "!update",
                 "!bf6update", "!help", "!bf6help"}
Words == CommandWords \cup {"hello", "!tracker", "!bf6list"}
Messages ==
    {[bot |-> b, word |-> "!add", blank |-> FALSE, hasArg |-> TRUE,
      arg |-> "url", url |-> u] :
        b \in BOOLEAN, u \in AllUrls}
    \cup {[bot |-> b, word |-> w, blank |-> FALSE, hasArg |-> TRUE,
            arg |-> a, url |-> NotAUrl] :
        b \in BOOLEAN, w \in Words \ {"!add"}, a \in UntrackArgs}
    \cup {[bot |-> b, word |-> w, blank |-> k, hasArg |-> FALSE,
            arg |-> Falsy, url |-> NotAUrl] :
        b \in BOOLEAN, w \in Words, k \in BOOLEAN}

\* the store the message meets
ListBefore == <<[name |-> "Ann", personaId |-> IdStr[2], platform |-> "xbox"]>>
CacheBefore == MapSet(NoMap, IdStr[2], [f \in {"kills"} |-> StatStr[1]])

InitMessage ==
    /\ phase = "running"
    /\ trackedPlayers = ListBefore
    /\ file = FileJson(ListBefore)
    /\ lastStats = CacheBefore
    /\ tasks = [t \in Tasks |-> Idle]
    /\ reply = NoReply
    /\ saved = NoSave
    /\ fetched = NoFetch
    /\ posted = NoPost
    /\ probed = NoProbe
    /\ lastExit = NoExit
    /\ runs = 1
    /\ started = 0
    /\ oldStats = NoOld /\ newStats = EmptySnap /\ changed = FALSE /\ applied = FALSE
    /\ message \in Messages
    /\ responses = <<>> /\ results = <<>> /\ embed = NoEmbed

messageCreate ==
    /\ ~applied
    /\ LET branch == Dispatch(message) IN
        CASE branch = "search" ->
                IF message.arg = Falsy THEN Usage("search")
                ELSE OnSearch(1, message.arg)
          [] branch = "add" ->
                IF message.arg = Falsy THEN Usage("add")
                ELSE OnAdd(1, message.url)
          [] branch = "track" ->
                IF message.arg = Falsy THEN Usage("track")
                ELSE OnTrack(1, message.arg)
          [] branch = "list" -> OnList
          [] branch = "untrack" ->
                IF message.arg = Falsy THEN Usage("untrack")
                ELSE OnUntrack(message.arg)
          [] branch = "update" -> OnUpdate(1)
          [] branch = "help" -> OnHelp
          [] OTHER -> UNCHANGED botVars
    /\ applied' = TRUE
    /\ UNCHANGED <<oldStats, newStats, changed, message, responses, results, embed>>

NextMessage == messageCreate

SpecMessage == InitMessage /\ [][NextMessage]_vars

(***************************************************************************)
(* searchPlayers on its own, within the !search handler that calls it:     *)
(* the handler's awaits touch no shared state, so it is one step.  Each    *)
(* platform answers with a network error, a non-2xx, a JSON null or a JSON *)
(* object; of a result, rank and kills (copied from the body) are left out.*)
(***************************************************************************)
SearchBodies ==
    [userName : {Falsy, "Ann"}, name : {Falsy, "ANN"},
     personaId : {Falsy, IdStr[1]}, id : {Falsy, IdStr[2]}]
SearchResponses ==
    {[kind |-> k, data |-> NoData] : k \in {"error", "notOk", "null"}}
    \cup {[kind |-> "ok", data |-> d] : d \in SearchBodies}

\* data && (data.userName || data.name || data.personaId)
HasPlayerData(resp) == resp.kind = "ok" /\ Recognizable(resp.data)

SearchResult(data, playerName, platform) ==
    [name |-> Or3(data.userName, data.name, playerName),
     personaId |-> Or3(data.personaId, data.id, JsNull),
     platform |-> platform]

RECURSIVE SearchLoop(_, _, _, _)
SearchLoop(playerName, resps, i, found) ==
    IF i > Len(platforms) THEN found
    ELSE SearchLoop(playerName, resps, i + 1,
            IF HasPlayerData(resps[i])
            THEN Append(found, SearchResult(resps[i].data, playerName, platforms[i]))
            ELSE found)

searchPlayersFirstOnly(playerName, resps) ==
    LET found == SearchLoop(playerName, resps, 1, <<>>)
    IN IF Len(found) > 1 THEN <<found[1]>> ELSE found
searchPlayers(playerName, resps) == SearchLoop(playerName, resps, 1, <<>>)

SearchNames == {"Zed"}

InitSearch ==
    /\ phase = "running"
    /\ trackedPlayers = ListBefore
    /\ file = FileJson(ListBefore)
    /\ lastStats = CacheBefore
    /\ tasks = [t \in Tasks |-> Idle]
    /\ reply = NoReply
    /\ saved = NoSave
    /\ fetched = NoFetch
    /\ posted = NoPost
    /\ probed = NoProbe
    /\ lastExit = NoExit
    /\ runs = 1
    /\ started = 0
    /\ oldStats = NoOld /\ newStats = EmptySnap /\ changed = FALSE /\ applied = FALSE
    /\ message \in {[bot |-> FALSE, word |-> "!search", blank |-> FALSE, hasArg |-> TRUE,
                     arg |-> n, url |-> NotAUrl] : n \in SearchNames}
    /\ responses \in [1..Len(platforms) -> SearchResponses]
    /\ results = <<>>
    /\ embed = NoEmbed

\* the !search handler from the message to its last reply
Search ==
    /\ ~applied
    /\ Dispatch(message) = "search"
    /\ results' = searchPlayers(message.arg, responses)
    /\ reply' = [cmd |-> "search",
                 text |-> IF Len(results') = 0 THEN "notFound" ELSE "results",
                 arg |-> message.arg]
    /\ started' = started + 1
    /\ applied' = TRUE
    /\ UNCHANGED <<phase, trackedPlayers, file, lastStats, tasks, saved, fetched,
                   posted, probed, lastExit, runs>>
    /\ UNCHANGED <<oldStats, newStats, changed, message, responses, embed>>

NextSearch == Search

SpecSearch == InitSearch /\ [][NextSearch]_vars

(***************************************************************************)
(* createStatsEmbed on its own, over snapshots that define any subset of   *)
(* the presentable stats, each as a number but for at most one, which is a *)
(* JSON string or a JSON null.                                             *)
(***************************************************************************)
EmbedFieldSet == {embedFields[i] : i \in 1..Len(embedFields)}
NumericSnaps == UNION {[D -> {StatStr[1]}] : D \in SUBSET EmbedFieldSet}
EmbedSnaps ==
    NumericSnaps
    \cup {[f \in DOMAIN snap |-> IF f = g THEN v ELSE snap[f]] :
            snap \in NumericSnaps, g \in EmbedFieldSet, v \in {JsString, JsNull}}

InitEmbed ==
    /\ phase = "running"
    /\ trackedPlayers = ListBefore
    /\ file = FileJson(ListBefore)
    /\ lastStats = CacheBefore
    /\ tasks = [t \in Tasks |-> Idle]
    /\ reply = NoReply
    /\ saved = NoSave
    /\ fetched = NoFetch
    /\ posted = NoPost
    /\ probed = NoProbe
    /\ lastExit = NoExit
    /\ runs = 1
    /\ started = 0
    /\ oldStats = NoOld /\ changed = FALSE /\ applied = FALSE
    /\ newStats \in EmbedSnaps
    /\ message = NoMessage
    /\ responses = <<>> /\ results = <<>>
    /\ embed = NoEmbed

Render ==
    /\ ~applied
    /\ embed' = createStatsEmbed(newStats)
    /\ applied' = TRUE
    /\ UNCHANGED <<oldStats, newStats, changed, message, responses, results>>
    /\ UNCHANGED botVars

NextEmbed == Render

SpecEmbed == InitEmbed /\ [][NextEmbed]_vars

(***************************************************************************)
(* Properties of the tracked-player store.                                 *)
(***************************************************************************)
Indices == 1..Len(trackedPlayers)
MutatingCommands == {"add", "track", "untrack"}

\* C1: in every reachable state no two entries of the tracked-player list
\* have the same identity key (personaId if present, else name+platform).
C1_NoTwoEntriesShareKey ==
    \A i, j \in Indices :
        i # j => PlayerKey(trackedPlayers[i]) # PlayerKey(trackedPlayers[j])

\* two players are tracked and a poll pass is walking the list
C1_TwoTrackedPlayers ==
    /\ Len(trackedPlayers) = 2
    /\ \E t \in Tasks : IsPass(tasks[t])

Found(task) ==
    FoundPlayer(ApiBody(task.arg, platforms[task.plat]), task.arg,
                platforms[task.plat])

KeyTracked(player) ==
    \E i \in Indices : PlayerKey(trackedPlayers[i]) = PlayerKey(player)

\* C4: an add or track whose looked-up player has the identity key of an
\* already tracked player replies "already being tracked" and leaves the
\* list, the file and the cache unchanged.
C4_DuplicateKeyRejected ==
    [][\A t \in Tasks :
        (/\ tasks[t].pc = "probe"
         /\ phase' = "running"
         /\ reply'.cmd = tasks[t].kind
         /\ reply'.text \in {"already", "added"}
         /\ tasks'[t] # tasks[t]
         /\ KeyTracked(Found(tasks[t])))
        => /\ reply'.text = "already"
           /\ UNCHANGED <<trackedPlayers, file, lastStats>>]_vars

\* player 1 on pc is the only tracked player and a second !track of it
\* was just refused
C4_SecondTrackRefused ==
    /\ Len(trackedPlayers) = 1
    /\ trackedPlayers[1].personaId = IdStr[1]
    /\ trackedPlayers[1].platform = "pc"
    /\ reply = [cmd |-> "track", text |-> "already", arg |-> IdStr[1]]

Without(list, i) == SubSeq(list, 1, i - 1) \o SubSeq(list, i + 1, Len(list))

\* C5 as written: untrack given a tracked player P's personaId removes
\* exactly P from the list.
C5_UntrackRemovesThatPlayer ==
    [][(/\ reply'.cmd = "untrack"
        /\ \E i \in Indices : trackedPlayers[i].personaId = reply'.arg)
        => \E i \in Indices :
              /\ trackedPlayers[i].personaId = reply'.arg
              /\ trackedPlayers' = Without(trackedPlayers, i)]_vars

\* C6 as written: an untrack that removes a player evicts the cache entry
\* of that player's identity key, and no step creates a cache entry for a
\* key that no tracked player has, whatever pass is in flight.
C6_EvictedKeyStaysAbsent ==
    [][/\ \A i \in Indices :
            (reply'.text = "removed" /\ trackedPlayers' = Without(trackedPlayers, i))
            => PlayerKey(trackedPlayers[i]) \notin DOMAIN lastStats'
       /\ \A key \in DOMAIN lastStats' \ DOMAIN lastStats :
            \E i \in 1..Len(trackedPlayers') :
                PlayerKey(trackedPlayers'[i]) = key]_vars

(***************************************************************************)
(* Properties of the change detector.                                      *)
(***************************************************************************)
DefinedInBothAndDiffer(field) ==
    /\ field \in DOMAIN oldStats.snap
    /\ field \in DOMAIN newStats
    /\ oldStats.snap[field] # newStats[field]

OneSided(field) == (field \in DOMAIN oldStats.snap) # (field \in DOMAIN newStats)

\* C7: statsChanged is true exactly when the previous snapshot is absent
\* or some key field is defined in both snapshots with different values;
\* a field defined on one side only does not make it true.
C7_ChangedIffAbsentOrKeyFieldDiffers ==
    applied =>
        (changed <=> (~oldStats.present
                        \/ \E field \in KeyFieldSet : DefinedInBothAndDiffer(field)))

\* statsChanged answered false for two snapshots that have a key field on
\* one side only
C7_OneSidedFieldUnchanged ==
    /\ applied
    /\ oldStats.present
    /\ \E field \in KeyFieldSet : OneSided(field)
    /\ ~changed

AgreeOnKeyFields ==
    \A field \in KeyFieldSet :
        /\ ~OneSided(field)
        /\ field \in DOMAIN newStats => oldStats.snap[field] = newStats[field]

\* C8: for present snapshots that differ only outside the key fields,
\* statsChanged is false.
C8_OtherFieldsIgnored ==
    (applied /\ oldStats.present /\ AgreeOnKeyFields) => ~changed

\* statsChanged was applied to two snapshots with the same kills whose
\* timePlayed differs
C8_OnlyTimePlayedDiffers ==
    /\ applied
    /\ oldStats.present
    /\ AgreeOnKeyFields
    /\ "kills" \in DOMAIN newStats
    /\ DefinedInBothAndDiffer("timePlayed")

(***************************************************************************)
(* Properties of a poll pass.                                              *)
(***************************************************************************)
\* C9 as written: no failure while processing one player aborts the pass:
\* a pass ends only after the last player of the list.
C9_PassNeverAborted ==
    [][\A t \in Tasks :
        (IsPass(tasks[t]) /\ tasks'[t].kind = "idle" /\ phase' = "running")
        => tasks[t].idx >= Len(trackedPlayers)]_vars

\* C10 as written: in a poll step whose fetch succeeded, an unchanged
\* snapshot posts nothing and leaves the cache as it was; a changed one is
\* rendered and handed to the channel, and a post sets the cache entry of
\* the player's key to the posted snapshot.
C10_PollStepSkipsOrPosts ==
    [][\A t \in Tasks :
        IsPass(tasks[t]) =>
            LET key == PlayerKey(tasks[t].player) IN
            /\ (tasks[t].pc = "fetch" /\ fetched'.by = t /\ fetched'.ok)
               => IF ~statsChanged(MapGet(lastStats, key), fetched'.stats)
                  THEN /\ tasks'[t].pc = "delay"
                       /\ posted' = NoPost
                       /\ lastStats' = lastStats
                  ELSE /\ tasks'[t].pc = "send"
                       /\ tasks'[t].stats = fetched'.stats
            /\ (tasks[t].pc = "send" /\ posted' # NoPost /\ tasks'[t] # tasks[t])
               => /\ posted' = [key |-> key, stats |-> tasks[t].stats]
                  /\ lastStats' = MapSet(lastStats, key, tasks[t].stats)]_vars

\* C11: when a pass's fetch for a player fails, the pass goes on to its
\* delay with nothing posted and the cache and the list unchanged; a pass
\* issues a fetch only by advancing its iterator (no retry), and hands a
\* message to the channel only in the step of a successful fetch.
C11_FailedFetchSkipsPlayer ==
    [][\A t \in Tasks :
        (IsPass(tasks[t]) /\ IsPass(tasks'[t])) =>
            /\ (tasks[t].pc = "fetch" /\ fetched'.by = t /\ ~fetched'.ok)
               => /\ tasks'[t] = [tasks[t] EXCEPT !.pc = "delay"]
                  /\ posted' = NoPost
                  /\ UNCHANGED <<lastStats, trackedPlayers>>
            /\ (tasks[t].pc # "fetch" /\ tasks'[t].pc = "fetch")
               => tasks'[t].idx = tasks[t].idx + 1
            /\ (tasks[t].pc # "send" /\ tasks'[t].pc = "send")
               => (tasks[t].pc = "fetch" /\ fetched'.by = t /\ fetched'.ok)]_vars

\* the fetch for the first of two tracked players just failed and the pass
\* is at its delay
C11_FetchJustFailed ==
    /\ Len(trackedPlayers) = 2
    /\ fetched.by # 0
    /\ ~fetched.ok
    /\ tasks[fetched.by].pc = "delay"
    /\ tasks[fetched.by].idx = 1

\* lastStats[key] is the snapshot of the latest message posted for the key
\* since the key was tracked or the process started: set at every post,
\* deleted at untrack, empty at start
DiffersInKeyField(a, b) ==
    \E field \in KeyFieldSet :
        \/ (field \in DOMAIN a) # (field \in DOMAIN b)
        \/ field \in DOMAIN a /\ a[field] # b[field]

\* C12 as written: every posted stats message is the first for its key, or
\* carries a snapshot that differs in a key field from the snapshot of the
\* message posted before it for that key.
C12_PostsOnlyChangedStats ==
    [][posted' # NoPost
        => \/ posted'.key \notin DOMAIN lastStats
           \/ DiffersInKeyField(lastStats[posted'.key], posted'.stats)]_vars

PassInFlight == \E u \in Tasks : IsPass(tasks[u])

\* C13: there is no overlap guard on poll passes: while a pass is in
\* flight over a non-empty list, a timer tick can start a second pass, and
\* so can an update command that has sent its first reply.
C13_NoOverlapGuard ==
    (phase = "running" /\ PassInFlight /\ Len(trackedPlayers) > 0) =>
        /\ (started < MaxStarts /\ \E t \in Tasks : FreeSlot(t))
           => ENABLED (\E t \in Tasks : TimerTick(t) /\ IsPass(tasks'[t]))
        /\ \A t \in Tasks :
            (tasks[t].kind = "update" /\ tasks[t].pc = "updReply")
            => ENABLED (UpdateReplied(t) /\ IsPass(tasks'[t]))

\* two poll passes are in flight at the same time, one of them an update's
C13_TwoPassesInFlight ==
    \E t, u \in Tasks :
        /\ t # u
        /\ IsPass(tasks[t]) /\ tasks[t].kind = "pass"
        /\ IsPass(tasks[u]) /\ tasks[u].kind = "update"

(***************************************************************************)
(* Properties of the command handlers.                                     *)
(***************************************************************************)
AddGiven == applied /\ ~message.bot /\ message.word = "!add" /\ message.hasArg
StoreAsBefore ==
    /\ trackedPlayers = ListBefore
    /\ file = FileJson(ListBefore)
    /\ lastStats = CacheBefore
NoTaskStarted == tasks = [t \in Tasks |-> Idle]

\* the URL is /bf6/profile/{id}/overview with an all-digit id
OverviewForm(url) ==
    /\ url.valid
    /\ url.path \in {<<"bf6", "profile", id, "overview">> : id \in DigitStrings}

\* the URL's path starts with bf6, profile and an all-digit id
IdAtThirdSegment(url) ==
    /\ url.valid
    /\ Len(url.path) >= 3
    /\ url.path[1] = "bf6"
    /\ url.path[2] = "profile"
    /\ url.path[3] \in DigitStrings

\* C14 as written: !add finds an id exactly when the URL has the form
\* /bf6/profile/{id}/overview with an all-digit id, and every other input
\* gets the format error.
C14_IdExactlyForOverviewUrl ==
    AddGiven => (reply.text = "lookingUp" <=> OverviewForm(message.url))

\* C14: parseTrackerUrl returns the id exactly when the URL's path starts
\* with bf6, profile and an all-digit id, whatever follows; on every other
\* input !add replies with the format error, starts nothing and leaves the
\* list, the file and the cache as they were.
C14_IdExactlyAtThirdSegment ==
    AddGiven =>
        IF IdAtThirdSegment(message.url)
        THEN /\ reply = [cmd |-> "add", text |-> "lookingUp",
                         arg |-> message.url.path[3]]
             /\ tasks[1].kind = "add" /\ tasks[1].arg = message.url.path[3]
             /\ StoreAsBefore
        ELSE /\ reply = [cmd |-> "add", text |-> "invalidUrl", arg |-> Falsy]
             /\ NoTaskStarted
             /\ StoreAsBefore

\* !add was given /bf6/profile/{id} without /overview and is looking the
\* id up
C14_IdWithoutOverview ==
    /\ AddGiven
    /\ message.url.valid
    /\ Len(message.url.path) = 3
    /\ reply.text = "lookingUp"

\* C19: a message whose first word is not a command, and any message a bot
\* wrote, is ignored: no reply, no fetch or other operation started, and
\* the list, the file and the cache are as they were.
C19_OtherMessagesIgnored ==
    (applied /\ (message.bot \/ message.word \notin CommandWords)) =>
        /\ reply = NoReply
        /\ NoTaskStarted
        /\ fetched = NoFetch /\ posted = NoPost /\ saved = NoSave
        /\ StoreAsBefore

\* a bot wrote "!untrack 2", naming the tracked player, and it was handled
C19_BotUntrackIgnored ==
    /\ applied
    /\ message.bot
    /\ message.word = "!untrack"
    /\ message.hasArg
    /\ message.arg = ListBefore[1].personaId

IsLookup(task) == task.kind \in {"add", "track"}
StoreUnchanged == UNCHANGED <<trackedPlayers, file, lastStats>>

\* C15: a lookup probes pc, xbox, psn in that order, one at a time.  A
\* recognizable response ends it at once, with the player on the platform
\* just probed appended (or refused as already tracked); any other response
\* (an error, a non-2xx, an unrecognizable body) leaves the store unchanged
\* and moves the lookup to the next platform, or after psn to the
\* not-found reply.
C15_ProbesInOrderUntilRecognized ==
    [][\A t \in Tasks :
        (IsLookup(tasks[t]) /\ tasks'[t] # tasks[t] /\ phase' = "running") =>
            LET plat == tasks[t].plat
                recognized == probed'.kind = "ok" /\ Recognizable(probed'.data)
                moved == /\ tasks'[t] = [tasks[t] EXCEPT !.pc = "probe", !.plat = plat + 1]
                         /\ reply' = NoReply
                         /\ StoreUnchanged
                notFound == /\ tasks'[t] = Idle
                            /\ reply'.cmd = tasks[t].kind /\ reply'.text = "notFound"
                            /\ StoreUnchanged
            IN  CASE tasks[t].pc = "lookupReply" ->
                        tasks'[t] = [tasks[t] EXCEPT !.pc = "probe", !.plat = 1]
                  [] tasks[t].pc = "probe" /\ recognized ->
                        /\ tasks'[t] = Idle
                        /\ probed'.data = ApiBody(tasks[t].arg, platforms[plat])
                        /\ \/ /\ reply'.text = "added"
                              /\ Len(trackedPlayers') = Len(trackedPlayers) + 1
                              /\ SubSeq(trackedPlayers', 1, Len(trackedPlayers)) = trackedPlayers
                              /\ trackedPlayers'[Len(trackedPlayers')].platform = platforms[plat]
                              /\ trackedPlayers'[Len(trackedPlayers')].name
                                    = Or3(probed'.data.userName, probed'.data.name, "Unknown")
                           \/ /\ reply'.text = "already"
                              /\ StoreUnchanged
                  [] tasks[t].pc = "probe" /\ ~recognized ->
                        \/ plat < Len(platforms) /\ moved
                        \/ plat = Len(platforms) /\ notFound
                        \/ /\ tasks[t].kind = "add" /\ probed'.kind # "error"
                           /\ tasks'[t] = [tasks[t] EXCEPT !.pc = "probeDelay"]
                           /\ StoreUnchanged
                  [] tasks[t].pc = "probeDelay" ->
                        \/ plat < Len(platforms) /\ moved
                        \/ plat = Len(platforms) /\ notFound
                  [] OTHER -> FALSE]_vars

\* a lookup got nothing from pc and xbox and its player was added on psn
C15_FoundOnThirdPlatform ==
    /\ reply.text = "added"
    /\ probed.kind = "ok"
    /\ Len(trackedPlayers) > 0
    /\ trackedPlayers[Len(trackedPlayers)].platform = platforms[3]

\* the platforms, in order, whose response satisfies the test
PlatformsWhere(flags) ==
    LET picked == SelectSeq([i \in 1..Len(platforms) |-> i], LAMBDA i : flags[i])
    IN [k \in 1..Len(picked) |-> platforms[picked[k]]]

PlatformsOf(list) == [i \in 1..Len(list) |-> list[i].platform]

NamedOrIdentified(resp) ==
    /\ resp.kind = "ok"
    /\ \/ resp.data.userName # Falsy
       \/ resp.data.name # Falsy
       \/ resp.data.personaId # Falsy
       \/ resp.data.id # Falsy

NamedOrPersona(resp) ==
    /\ resp.kind = "ok"
    /\ \/ resp.data.userName # Falsy
       \/ resp.data.name # Falsy
       \/ resp.data.personaId # Falsy

\* C16 as written: searchPlayers returns one result for exactly each
\* platform whose response is a player object with a name or an id field,
\* in the order pc, xbox, psn, and an empty result replies not-found.
C16_OneResultPerNamedOrIdentified ==
    applied =>
        /\ PlatformsOf(results) = PlatformsWhere([j \in 1..Len(platforms) |-> NamedOrIdentified(responses[j])])
        /\ (reply.text = "notFound" <=> results = <<>>)

\* C16: searchPlayers returns one result for exactly each platform whose
\* response is a 2xx with a body that has a truthy userName, name or
\* personaId (an id alone does not count), in the order pc, xbox, psn;
\* errors and non-2xx contribute nothing and stop nothing; an empty result
\* replies not-found.
C16_OneResultPerNamedOrPersona ==
    applied =>
        /\ PlatformsOf(results) = PlatformsWhere([j \in 1..Len(platforms) |-> NamedOrPersona(responses[j])])
        /\ \A i \in 1..Len(results) :
            \E j \in 1..Len(platforms) :
                /\ platforms[j] = results[i].platform
                /\ results[i].name
                    = Or3(responses[j].data.userName, responses[j].data.name, message.arg)
        /\ (reply.text = "notFound" <=> results = <<>>)
        /\ (reply.text = "results" <=> results # <<>>)

\* pc errored, xbox answered with an id only, psn with a named player: the
\* search returned the psn player alone
C16_ErrorAndIdOnlySkipped ==
    /\ applied
    /\ responses[1].kind = "error"
    /\ responses[2].kind = "ok" /\ responses[2].data.id # Falsy
    /\ ~Recognizable(responses[2].data)
    /\ Len(results) = 1
    /\ results[1].platform = platforms[3]

\* the position of a presentable stat in the fixed order
FieldRank(field) == CHOOSE i \in 1..Len(embedFields) : embedFields[i] = field

\* C17 as written: createStatsEmbed emits one field for exactly each
\* presentable stat the snapshot defines and none for an absent one, in the
\* fixed order, never more than 11.
C17_OneFieldPerPresentStat ==
    applied =>
        /\ ~embed.threw
        /\ \A f \in EmbedFieldSet :
            Cardinality({i \in 1..Len(embed.fields) : embed.fields[i] = f})
                = IF Defined(newStats, f) THEN 1 ELSE 0
        /\ \A i, j \in 1..Len(embed.fields) :
            i < j => FieldRank(embed.fields[i]) < FieldRank(embed.fields[j])
        /\ Len(embed.fields) <= Len(embedFields)
        /\ Len(embed.fields) < 25

\* the completion reply of !update
Updated == [cmd |-> "update", text |-> "updated", arg |-> Falsy]

\* an update whose pass has nothing left to iterate
PassFinished(task) ==
    \/ task.pc = "delay" /\ task.idx >= Len(trackedPlayers)
    \/ task.pc = "updReply" /\ Len(trackedPlayers) = 0

\* C18 as written: an update command runs one pass and replies when done:
\* while the process runs, its handler ends only by sending the completion
\* reply, and that reply is sent only by an update whose pass has finished
\* every player it iterates.
C18_UpdateRepliesWhenDone ==
    [][/\ \A t \in Tasks :
            (tasks[t].kind = "update" /\ tasks'[t].kind = "idle" /\ phase' = "running")
            => reply' = Updated
       /\ reply' = Updated
            => \E t \in Tasks :
                /\ tasks[t].kind = "update" /\ tasks'[t].kind = "idle"
                /\ PassFinished(tasks[t])]_vars

\* the step in which the ready handler runs loadTrackedPlayers
Loads == phase = "starting" /\ phase' = "running"

\* C20 as written: at startup a missing file leaves the list empty and is
\* created at once holding an empty array; a present file's content becomes
\* the list; an unreadable file leaves the list empty, and startup goes on.
C20_MissingFileCreated ==
    [][Loads =>
        /\ file.state = "missing"
            => trackedPlayers' = <<>> /\ file' = FileJson(<<>>)
        /\ file.state = "json"
            => trackedPlayers' = JSONparse(file.data) /\ file' = file
        /\ file.state = "corrupt"
            => trackedPlayers' = <<>> /\ file' = file]_vars

\* C20: at startup a missing file leaves the list empty and a write of an
\* empty array is attempted at once: the file holds the empty array when
\* that write succeeds, and is still missing or unparsable when it fails,
\* startup going on either way; a present file's content becomes the list;
\* an unreadable file leaves the list empty, and startup goes on.
C20_MissingFileCreatedIfWritten ==
    [][Loads =>
        /\ file.state = "missing"
            => /\ trackedPlayers' = <<>>
               /\ saved'.by = "load"
               /\ saved'.ok => file' = FileJson(<<>>)
               /\ ~saved'.ok => file' \in {file, FileCorrupt}
        /\ file.state = "json"
            => trackedPlayers' = JSONparse(file.data) /\ file' = file
        /\ file.state = "corrupt"
            => trackedPlayers' = <<>> /\ file' = file]_vars

\* the bot is up with an empty list after a start without a file, the
\* creating write having failed
C20_RunningWithoutFile ==
    /\ phase = "running"
    /\ saved = [by |-> "load", ok |-> FALSE]
    /\ file = FileMissing
    /\ trackedPlayers = <<>>

\* C21: a save whose write fails stops nothing: the command that saves has
\* changed the list in memory and replied whatever the write did, the
\* process keeps running with its passes in flight, and a save that succeeds leaves the file equal to
\* the whole in-memory list, whatever earlier saves failed.
C21_FailedWriteNotFatal ==
    [][saved'.by \in MutatingCommands =>
        /\ phase' = "running"
        /\ trackedPlayers' # trackedPlayers
        /\ reply'.text \in {"added", "removed"}
        /\ \A t \in Tasks : IsPass(tasks[t]) => tasks'[t] = tasks[t]
        /\ saved'.ok => file' = FileJson(trackedPlayers')]_vars

\* the file lacks the one tracked player, whose save failed; a poll pass is
\* fetching that player, and a save that brings the file level can follow
C21_PolledWhileUnpersisted ==
    /\ phase = "running"
    /\ Len(trackedPlayers) = 1
    /\ file = FileJson(<<>>)
    /\ \E t \in Tasks :
        /\ IsPass(tasks[t]) /\ tasks[t].pc = "fetch"
        /\ tasks[t].player = trackedPlayers[1]
    /\ ENABLED (Next /\ saved'.ok /\ phase' = "running"
                     /\ file' = FileJson(trackedPlayers'))

\* the entries of a list with a persona id
WithId(list, playerId) == {i \in 1..Len(list) : list[i].personaId = playerId}

\* the step in which the lookup of task t ends its probe loop with a player
Concludes(t) ==
    /\ tasks[t].kind \in {"track", "add"} /\ tasks[t].pc = "probe"
    /\ tasks'[t] = Idle
    /\ phase' = "running"
    /\ reply'.cmd = tasks[t].kind /\ reply'.text \in {"added", "already"}

\* C22: the duplicate check and the append are one step, so however the
\* lookups of one player id interleave at their awaits, a lookup that ends
\* while the id is tracked replies "already being tracked" and leaves the
\* list as it is, and one that adds leaves exactly one entry with that id.
C22_ConcurrentLookupsAddOnce ==
    [][\A t \in Tasks :
        Concludes(t) =>
            /\ Cardinality(WithId(trackedPlayers, tasks[t].arg)) <= 1
            /\ WithId(trackedPlayers, tasks[t].arg) # {}
                => reply'.text = "already" /\ trackedPlayers' = trackedPlayers
            /\ reply'.text = "added"
                => /\ WithId(trackedPlayers, tasks[t].arg) = {}
                   /\ Cardinality(WithId(trackedPlayers', tasks[t].arg)) = 1]_vars

\* two !track of player 1 were in flight together (the second took slot 2):
\* the first has just added the player, the second is still probing and
\* will be refused
C22_SecondLookupStillProbing ==
    /\ runs = 1 /\ started = 2
    /\ reply = [cmd |-> "track", text |-> "added", arg |-> IdStr[1]]
    /\ Cardinality(WithId(trackedPlayers, IdStr[1])) = 1
    /\ tasks[1] = Idle
    /\ tasks[2].kind = "track" /\ tasks[2].pc = "probe" /\ tasks[2].arg = IdStr[1]
    /\ ENABLED (ProbeDone(2) /\ reply'.text = "already")

\* a channel.send for an identity key is awaited
SendInFlight(key) ==
    \E t \in Tasks :
        IsPass(tasks[t]) /\ tasks[t].pc = "send" /\ PlayerKey(tasks[t].player) = key

\* C23 as written, step by step: the cache entry of a key is the snapshot
\* of the latest message posted for it since the key was last (re)tracked
\* or the process started.  So an entry appears or changes only by a post
\* of that snapshot, every post sets it, it goes only by an untrack or with
\* the process, and when a key is (re)tracked with no send for it in
\* flight, nothing having been posted for it since, it has no entry.
C23_CacheIsLatestPost ==
    [][/\ \A k \in DOMAIN lastStats' :
            (k \notin DOMAIN lastStats \/ lastStats'[k] # lastStats[k])
            => posted' = [key |-> k, stats |-> lastStats'[k]]
       /\ posted' # NoPost
            => /\ posted'.key \in DOMAIN lastStats'
               /\ lastStats'[posted'.key] = posted'.stats
       /\ DOMAIN lastStats \ DOMAIN lastStats' # {}
            => phase' = "down" \/ reply'.text = "removed"
       /\ \A t \in Tasks :
            (Concludes(t) /\ reply'.text = "added"
                /\ ~SendInFlight(PlayerKey(Found(tasks[t]))))
            => PlayerKey(Found(tasks[t])) \notin DOMAIN lastStats']_vars

\* C24: a pass handles one player at a time, in list order: it starts with
\* the first player; a settled fetch leads to that player's send or delay
\* (or ends the pass), a settled send to the delay, and only the elapsed
\* delay moves the pass on, to the next entry of the list as it then is.
C24_OnePlayerAtATime ==
    [][\A t \in Tasks :
        /\ (~IsPass(tasks[t]) /\ IsPass(tasks'[t]))
            => /\ tasks'[t].idx = 1
               /\ tasks'[t].player = trackedPlayers'[1]
        /\ (IsPass(tasks[t]) /\ tasks'[t] # tasks[t] /\ phase' = "running")
            => CASE tasks[t].pc = "fetch" ->
                        \/ tasks'[t] = Idle
                        \/ /\ tasks'[t].pc \in {"send", "delay"}
                           /\ tasks'[t].idx = tasks[t].idx
                           /\ tasks'[t].player = tasks[t].player
                 [] tasks[t].pc = "send" ->
                        /\ tasks'[t].pc = "delay"
                        /\ tasks'[t].idx = tasks[t].idx
                        /\ tasks'[t].player = tasks[t].player
                 [] OTHER ->
                        \/ tasks'[t] = Idle /\ tasks[t].idx >= Len(trackedPlayers)
                        \/ /\ tasks'[t].pc \in {"fetch", "delay"}
                           /\ tasks'[t].idx = tasks[t].idx + 1
                           /\ tasks'[t].player = trackedPlayers[tasks[t].idx + 1]]_vars

\* a pass over two players has come to fetch the second one
C24_FetchingSecondPlayer ==
    /\ Len(trackedPlayers) = 2
    /\ \E t \in Tasks :
        /\ IsPass(tasks[t]) /\ tasks[t].pc = "fetch" /\ tasks[t].idx = 2
        /\ tasks[t].player = trackedPlayers[2]

\* C25 as written: a send that fails leaves the cache as it was, so a pass
\* that then fetches a snapshot differing from the cached one attempts the
\* post (a failed send leaving no trace, that is any pass that fetches a
\* differing snapshot); and a step that finds no channel fetches nothing,
\* posts nothing and changes no state.
C25_FailedPostRetried ==
    [][\A t \in Tasks :
        (IsPass(tasks[t]) /\ tasks'[t] # tasks[t] /\ phase' = "running")
        => /\ (tasks[t].pc = "send" /\ posted' = NoPost)
                => lastStats' = lastStats
           /\ (/\ tasks[t].pc = "fetch" /\ fetched'.by = t /\ fetched'.ok
               /\ statsChanged(MapGet(lastStats, PlayerKey(tasks[t].player)),
                               fetched'.stats))
                => /\ tasks'[t].pc = "send"
                   /\ tasks'[t].stats = fetched'.stats
           /\ (tasks[t].pc = "delay" /\ tasks'[t].pc = "delay")
                => /\ fetched' = NoFetch /\ posted' = NoPost
                   /\ UNCHANGED <<trackedPlayers, file, lastStats>>]_vars

\* C26 as written: every key of the cache is the identity key of a player
\* in the tracked-player list.
C26_CacheKeysAreTracked ==
    \A k \in DOMAIN lastStats :
        \E i \in Indices : PlayerKey(trackedPlayers[i]) = k

\* the step in which the pass of task t completes its loop
PassCompletes(t) ==
    IsPass(tasks[t]) /\ tasks[t].pc = "delay" /\ tasks'[t] = Idle /\ phase' = "running"

\* how often a pass has entered postPlayerStats for a key
TimesSeen(task, key) == Cardinality({i \in 1..Len(task.seen) : task.seen[i] = key})

\* C27 as written: a pass that completes has processed exactly once every
\* player that was in the list from its start to its end (here: whose key
\* was in the list the pass started on and is in the list at its end).
C27_EveryStayingPlayerProcessedOnce ==
    [][\A t \in Tasks :
        PassCompletes(t) =>
            \A key \in tasks[t].whole \cap KeysOf(trackedPlayers) :
                TimesSeen(tasks[t], key) = 1]_vars

\* C28 as written: an exit before the ready handler has loaded the list
\* leaves the persisted file as it was.
C28_ExitBeforeReadyKeepsFile ==
    [][(phase = "starting" /\ phase' = "down") => file' = file]_vars

\* C29 as written: a lookup whose player has an identity key that no
\* tracked player has appends that player to the end of the list and
\* saves, whatever names and platforms the tracked players have.
C29_NewKeyIsAppended ==
    [][\A t \in Tasks :
        (Concludes(t) /\ ~KeyTracked(Found(tasks[t])))
        => /\ reply'.text = "added"
           /\ trackedPlayers' = Append(trackedPlayers, Found(tasks[t]))
           /\ saved'.by = tasks[t].kind]_vars

ArgumentCommands == {"!search", "!add", "!track", "!untrack"}

\* C30 as written: a !search, !add, !track or !untrack without an argument
\* (nothing, or only white space, after the word) is answered with that
\* command's usage reply and changes no state.
C30_EmptyArgumentGetsUsage ==
    (/\ applied /\ ~message.bot
     /\ message.word \in ArgumentCommands /\ ~message.hasArg)
    => /\ reply.text = "usage"
       /\ NoTaskStarted
       /\ StoreAsBefore

====
